---- MODULE Spec2Model ----
(***************************************************************************)
(* Practiso Archive Tools (src/main.py): the tool handlers begin_quiz,     *)
(* end_quiz, add_text and save over one session's AppContext, and the      *)
(* teardown of app_lifespan.                                               *)
(*                                                                         *)
(* The state tracker (module state_tracking) and the document builder      *)
(* (practiso_sdk.build.Builder) are imported by main.py and are not part   *)
(* of the sources; they are modelled from the design document: the tracker *)
(* as a rank 0..2 with the flags built and empty, the builder as a list of *)
(* finished quizzes plus a staging stack.                                  *)
(***************************************************************************)
EXTENDS Naturals, Sequences, FiniteSets

VARIABLES
    state,          \* AppContext.state: [level, built, empty]
    quiz_builder,   \* AppContext.quiz_builder: [quizzes, staging]
    fs,             \* the files written so far: a set of [name, gzip]
    stderr,         \* the diagnostics printed to sys.stderr
    phase,          \* "running" (inside the yield) or "closed" (finally done)
    last,           \* the last tool call: its input, outcome and the state before
    td,             \* what the teardown did
    hist,           \* the begin_quiz, add_text and end_quiz calls that succeeded
    faulty          \* whether the builder and the file system may raise

vars == <<state, quiz_builder, fs, stderr, phase, last, td, hist, faulty>>

----------------------------------------------------------------------------
(* Bounds of the model *)

MaxItems == 4       \* quizzes begun plus texts added in one session

Names == {"None", "quiz A"}
Texts == {"t1", "t2"}
\* datetime.now().strftime("%Y%m%d_%H%M%S") at the end of the session
Timestamps == {"20260101_000000", "20260101_000001"}

----------------------------------------------------------------------------
(* state_tracking.Head and BuildingStateTracker *)

root == 0
quiz == 1
option == 2

HeadName(l) == <<"root", "quiz", "option">>[l + 1]

NewTracker == [level |-> root, built |-> FALSE, empty |-> TRUE]

head(st) == st.level

valid(st) == st.level = root

\* [raised, state]: IllegalTransition at the deepest level
increase_level(st) ==
    IF st.level >= option
    THEN [raised |-> TRUE, state |-> st]
    ELSE [raised |-> FALSE,
          state |-> [st EXCEPT !.level = @ + 1, !.empty = FALSE]]

\* [raised, state]: IllegalTransition at root
decrease_level(st) ==
    IF st.level <= root
    THEN [raised |-> TRUE, state |-> st]
    ELSE [raised |-> FALSE, state |-> [st EXCEPT !.level = @ - 1]]

----------------------------------------------------------------------------
(* practiso_sdk.build.Builder *)

NewBuilder == [quizzes |-> <<>>, staging |-> <<>>]

\* each builder call: [raised, builder]; a call outside its contract raises
BuilderBeginQuiz(qb, name) ==
    IF qb.staging # <<>>
    THEN [raised |-> TRUE, builder |-> qb]
    ELSE [raised |-> FALSE,
          builder |-> [qb EXCEPT !.staging = <<[name |-> name, texts |-> <<>>]>>]]

BuilderEndQuiz(qb) ==
    IF qb.staging = <<>>
    THEN [raised |-> TRUE, builder |-> qb]
    ELSE [raised |-> FALSE,
          builder |-> [quizzes |-> Append(qb.quizzes, qb.staging[1]),
                       staging |-> <<>>]]

BuilderAddText(qb, content) ==
    IF qb.staging = <<>>
    THEN [raised |-> TRUE, builder |-> qb]
    ELSE [raised |-> FALSE,
          builder |-> [qb EXCEPT !.staging[1].texts = Append(@, content)]]

\* [raised, archive]: the archive holds the finished quizzes
BuilderBuild(qb) ==
    IF qb.staging # <<>>
    THEN [raised |-> TRUE, archive |-> <<>>]
    ELSE [raised |-> FALSE, archive |-> qb.quizzes]

ToBytes(archive) == [bytes |-> archive]

----------------------------------------------------------------------------
(* pathlib.Path as save reads it *)

\* the paths a caller hands to save
Paths ==
    [absolute : BOOLEAN, is_dir : BOOLEAN, suffix : {".psarchive", ".zip"},
     stem : {<<"quizzes">>}]

\* f'unsaved_{...}.psarchive', relative to the working directory
FallbackName(ts) ==
    [absolute |-> FALSE, is_dir |-> FALSE, suffix |-> ".psarchive",
     stem |-> <<"unsaved_", ts>>]

\* the files after gzip.open(name, "wb") and the writing of `buffers`: the
\* file is created, or truncated when it exists
GzipFile(files, name, buffers) ==
    {f \in files : f.name # name} \cup {[name |-> name, gzip |-> buffers]}

\* what the builder and the file system may do to one call
Faults == IF faulty THEN {"none", "builder", "open", "write"} ELSE {"none"}

----------------------------------------------------------------------------
(* helpers of main.py; a string is modelled as the sequence of its pieces *)

RECURSIVE Join(_, _)
Join(sep, items) ==
    IF Len(items) = 0 THEN <<>>
    ELSE IF Len(items) = 1 THEN <<items[1]>>
    ELSE <<items[1], sep>> \o Join(sep, Tail(items))

\* [raised, value]: ValueError("empty items") on an empty list
RECURSIVE _format_and_clause(_)
_format_and_clause(items) ==
    IF Len(items) = 0 THEN [raised |-> TRUE, value |-> <<>>]
    ELSE IF Len(items) = 1 THEN [raised |-> FALSE, value |-> <<items[1]>>]
    ELSE IF Len(items) = 2
        THEN [raised |-> FALSE, value |-> <<items[1], " and ", items[2]>>]
    ELSE [raised |-> FALSE,
          value |-> Join(", ", SubSeq(items, 1, Len(items) - 2)) \o <<", ">>
                    \o _format_and_clause(SubSeq(items, Len(items) - 1, Len(items))).value]

\* [raised, msg]: RuntimeError when not is_valid; `instructions` is <<>> for None
_assert_valid(is_valid, instructions) ==
    [raised |-> ~is_valid,
     msg |-> IF instructions # <<>>
             THEN <<"you are in an illegal state", "; ">> \o instructions
             ELSE <<>>]

\* Head(i).name for i in range(level, 0, -1)
OpenLevels(l) == [k \in 1..l |-> HeadName(l - k + 1)]

\* what a handler returns to its caller and leaves behind
Outcome(st, qb, files, result, msg, builder_calls, writes) ==
    [state |-> st, quiz_builder |-> qb, fs |-> files, result |-> result,
     msg |-> msg, builder_calls |-> builder_calls, writes |-> writes]

----------------------------------------------------------------------------
(* the tool handlers; `fault` is what the environment does to this call *)

\* mutant: the check of begin_quiz inverted
begin_quiz_allowed_inverted(st) == head(st) # root

begin_quiz_allowed(st) == head(st) = root

\* mutant: begin_quiz descends two levels
begin_quiz_track_twice(st) == increase_level(increase_level(st).state)

\* mutant: begin_quiz leaves the tracker where it was
begin_quiz_track_forgotten(st) == [raised |-> FALSE, state |-> st]

begin_quiz_track(st) == increase_level(st)

\* mutant: the tracker descends before the builder is asked
begin_quiz_track_first(st, qb, files, name, fault) ==
    LET chk == _assert_valid(begin_quiz_allowed(st), <<>>)
        b == BuilderBeginQuiz(qb, name)
        inc == begin_quiz_track(st)
    IN  IF chk.raised
        THEN Outcome(st, qb, files, "IllegalState", chk.msg, 0, 0)
        ELSE IF inc.raised
        THEN Outcome(st, qb, files, "IllegalTransition", <<>>, 0, 0)
        ELSE IF fault = "builder" \/ b.raised
        THEN Outcome(inc.state, qb, files, "BuilderError", <<>>, 1, 0)
        ELSE Outcome(inc.state, b.builder, files, "ok",
                     <<"Quiz begun. Now you can add content to the quiz.">>, 1, 0)

begin_quiz(st, qb, files, name, fault) ==
    LET chk == _assert_valid(begin_quiz_allowed(st), <<>>)
        b == BuilderBeginQuiz(qb, name)
        inc == begin_quiz_track(st)
    IN  IF chk.raised
        THEN Outcome(st, qb, files, "IllegalState", chk.msg, 0, 0)
        ELSE IF fault = "builder" \/ b.raised
        THEN Outcome(st, qb, files, "BuilderError", <<>>, 1, 0)
        ELSE IF inc.raised
        THEN Outcome(st, b.builder, files, "IllegalTransition", <<>>, 1, 0)
        ELSE Outcome(inc.state, b.builder, files, "ok",
                     <<"Quiz begun. Now you can add content to the quiz.">>, 1, 0)

end_quiz_allowed(st) == head(st) = quiz

\* mutant: end_quiz never returns to the level above
end_quiz_track_forgotten(st) == [raised |-> FALSE, state |-> st]

\* mutant: end_quiz climbs two levels
end_quiz_track_twice(st) ==
    IF decrease_level(st).raised THEN decrease_level(st)
    ELSE decrease_level(decrease_level(st).state)

end_quiz_track(st) == decrease_level(st)

end_quiz(st, qb, files, fault) ==
    LET chk == _assert_valid(end_quiz_allowed(st), <<>>)
        b == BuilderEndQuiz(qb)
        dec == end_quiz_track(st)
    IN  IF chk.raised
        THEN Outcome(st, qb, files, "IllegalState", chk.msg, 0, 0)
        ELSE IF fault = "builder" \/ b.raised
        THEN Outcome(st, qb, files, "BuilderError", <<>>, 1, 0)
        ELSE IF dec.raised
        THEN Outcome(st, b.builder, files, "IllegalTransition", <<>>, 1, 0)
        ELSE Outcome(dec.state, b.builder, files, "ok", <<"Quiz ended.">>, 1, 0)

\* mutant: add_text accepts the option level only
add_text_allowed_option_only(st) == head(st) \in {option}

add_text_allowed(st) == head(st) \in {quiz, option}

add_text(st, qb, files, content, fault) ==
    LET chk == _assert_valid(add_text_allowed(st), <<>>)
        b == BuilderAddText(qb, content)
    IN  IF chk.raised
        THEN Outcome(st, qb, files, "IllegalState", chk.msg, 0, 0)
        ELSE IF fault = "builder" \/ b.raised
        THEN Outcome(st, qb, files, "BuilderError", <<>>, 1, 0)
        ELSE Outcome(st, b.builder, files, "ok", <<"Text added.">>, 1, 0)

\* mutant: the existing-directory rule left out
path_error_no_dir_rule(path) ==
    IF ~path.absolute THEN <<"path is not absolute">>
    ELSE IF path.suffix # ".psarchive" THEN <<"path does not end with .psarchive">>
    ELSE <<>>

\* the ValueError of the first path rule that fails, <<>> when none does
path_error(path) ==
    IF ~path.absolute THEN <<"path is not absolute">>
    ELSE IF path.is_dir THEN <<"path is an existing directory">>
    ELSE IF path.suffix # ".psarchive" THEN <<"path does not end with .psarchive">>
    ELSE <<>>

\* mutant: the target file is opened before the state is checked
save_open_first(st, qb, files, path, fault) ==
    LET perr == path_error(path)
        chk1 == _assert_valid(~st.empty, <<"begin a quiz first">>)
        clause == _format_and_clause(OpenLevels(st.level))
        chk2 == _assert_valid(valid(st), <<"end the ">> \o clause.value)
        opened == GzipFile(files, path, <<>>)
        b == BuilderBuild(qb)
        written == GzipFile(files, path, <<ToBytes(b.archive)>>)
    IN  IF perr # <<>>
        THEN Outcome(st, qb, files, "InvalidTarget", perr, 0, 0)
        ELSE IF fault = "open"
        THEN Outcome(st, qb, files, "OSError", <<>>, 0, 0)
        ELSE IF chk1.raised
        THEN Outcome(st, qb, opened, "IllegalState", chk1.msg, 0, 1)
        ELSE IF clause.raised
        THEN Outcome(st, qb, opened, "ValueError", <<"empty items">>, 0, 1)
        ELSE IF chk2.raised
        THEN Outcome(st, qb, opened, "IllegalState", chk2.msg, 0, 1)
        ELSE IF fault = "builder" \/ b.raised
        THEN Outcome(st, qb, opened, "BuilderError", <<>>, 1, 1)
        ELSE IF fault = "write"
        THEN Outcome(st, qb, opened, "OSError", <<>>, 1, 1)
        ELSE Outcome(st, qb, written, "ok", <<"Your edit has been saved to ">>, 1, 1)

save(st, qb, files, path, fault) ==
    LET perr == path_error(path)
        chk1 == _assert_valid(~st.empty, <<"begin a quiz first">>)
        \* the argument of the second check is evaluated before the check
        clause == _format_and_clause(OpenLevels(st.level))
        chk2 == _assert_valid(valid(st), <<"end the ">> \o clause.value)
        opened == GzipFile(files, path, <<>>)
        b == BuilderBuild(qb)
        written == GzipFile(files, path, <<ToBytes(b.archive)>>)
    IN  IF perr # <<>>
        THEN Outcome(st, qb, files, "InvalidTarget", perr, 0, 0)
        ELSE IF chk1.raised
        THEN Outcome(st, qb, files, "IllegalState", chk1.msg, 0, 0)
        ELSE IF clause.raised
        THEN Outcome(st, qb, files, "ValueError", <<"empty items">>, 0, 0)
        ELSE IF chk2.raised
        THEN Outcome(st, qb, files, "IllegalState", chk2.msg, 0, 0)
        ELSE IF fault = "open"
        THEN Outcome(st, qb, files, "OSError", <<>>, 0, 0)
        ELSE IF fault = "builder" \/ b.raised
        THEN Outcome(st, qb, opened, "BuilderError", <<>>, 1, 1)
        ELSE IF fault = "write"
        THEN Outcome(st, qb, opened, "OSError", <<>>, 1, 1)
        ELSE Outcome(st, qb, written, "ok", <<"Your edit has been saved to ">>, 1, 1)

----------------------------------------------------------------------------
(* app_lifespan: the finally block run when the session ends *)

\* mutant: the automatic save taken for the state that was already built
teardown_autosave_built(st) == valid(st) /\ st.built

teardown_autosave(st) == valid(st) /\ ~st.built

\* mutant: the warning given for the empty session only
teardown_warn_empty(st) == ~valid(st) /\ st.empty

teardown_warn(st) == ~valid(st) /\ ~st.empty

\* [fs, stderr, result, builds, writes]; result "raised" when an exception
\* leaves the finally block
app_lifespan(st, qb, files, err, ts, fault) ==
    LET b == BuilderBuild(qb)
        save_name == FallbackName(ts)
        opened == GzipFile(files, save_name, <<>>)
        written == GzipFile(files, save_name, <<ToBytes(b.archive)>>)
        Done(f, e, r, nb, nw) ==
            [fs |-> f, stderr |-> e, result |-> r, builds |-> nb, writes |-> nw]
    IN  IF teardown_autosave(st)
        THEN IF fault = "builder" \/ b.raised THEN Done(files, err, "raised", 1, 0)
             ELSE IF fault = "open" THEN Done(files, err, "raised", 1, 0)
             ELSE IF fault = "write" THEN Done(opened, err, "raised", 1, 1)
             ELSE Done(written, err, "ok", 1, 1)
        ELSE IF teardown_warn(st)
        THEN Done(files,
                  Append(err, <<"Warning: archive was left invalid at ",
                                HeadName(head(st)), " and was UNSAVED">>),
                  "ok", 0, 0)
        ELSE Done(files, err, "ok", 0, 0)

----------------------------------------------------------------------------
(* the session *)

NoPath == [absolute |-> FALSE, is_dir |-> FALSE, suffix |-> ".zip", stem |-> <<"quizzes">>]

NoFiles == {}

NoCall ==
    [op |-> "none", path |-> NoPath, result |-> "none", msg |-> <<>>,
     pre |-> NewTracker, pre_builder |-> NewBuilder, pre_fs |-> NoFiles,
     builder_calls |-> 0, writes |-> 0]

NoTeardown == [result |-> "none", builds |-> 0, writes |-> 0, pre |-> NewTracker]

InitSession ==
    /\ state = NewTracker
    /\ quiz_builder = NewBuilder
    /\ fs = NoFiles
    /\ stderr = <<>>
    /\ phase = "running"
    /\ last = NoCall
    /\ td = NoTeardown
    /\ hist = <<>>

\* the builder and the file system never raise
Init == InitSession /\ faulty = FALSE

\* the builder and the file system may raise
InitFault == InitSession /\ faulty \in BOOLEAN

\* a tool call returned or raised: what it leaves behind
Return(op, arg, path, o) ==
    /\ state' = o.state
    /\ quiz_builder' = o.quiz_builder
    /\ fs' = o.fs
    /\ last' = [op |-> op, path |-> path, result |-> o.result, msg |-> o.msg,
                pre |-> state, pre_builder |-> quiz_builder, pre_fs |-> fs,
                builder_calls |-> o.builder_calls, writes |-> o.writes]
    /\ hist' = IF o.result = "ok" /\ op # "save"
               THEN Append(hist, <<op, arg>>) ELSE hist
    /\ UNCHANGED <<stderr, phase, td, faulty>>

RECURSIVE NTexts(_)
NTexts(quizzes) ==
    IF quizzes = <<>> THEN 0 ELSE Len(quizzes[1].texts) + NTexts(Tail(quizzes))

\* the quizzes begun and the texts added so far
NItems ==
    Len(quiz_builder.quizzes) + Len(quiz_builder.staging)
        + NTexts(quiz_builder.quizzes) + NTexts(quiz_builder.staging)

BeginQuiz ==
    /\ phase = "running"
    /\ NItems < MaxItems
    /\ \E name \in Names, fault \in Faults :
          Return("begin_quiz", name, NoPath, begin_quiz(state, quiz_builder, fs, name, fault))

EndQuiz ==
    /\ phase = "running"
    /\ \E fault \in Faults :
          Return("end_quiz", "", NoPath, end_quiz(state, quiz_builder, fs, fault))

AddText ==
    /\ phase = "running"
    /\ NItems < MaxItems
    /\ \E content \in Texts, fault \in Faults :
          Return("add_text", content, NoPath, add_text(state, quiz_builder, fs, content, fault))

Save ==
    /\ phase = "running"
    /\ \E path \in Paths, fault \in Faults :
          Return("save", "", path, save(state, quiz_builder, fs, path, fault))

Teardown ==
    /\ phase = "running"
    /\ \E ts \in Timestamps, fault \in Faults :
          LET o == app_lifespan(state, quiz_builder, fs, stderr, ts, fault)
          IN  /\ fs' = o.fs
              /\ stderr' = o.stderr
              /\ td' = [result |-> o.result, builds |-> o.builds,
                        writes |-> o.writes, pre |-> state]
              /\ phase' = "closed"
              /\ UNCHANGED <<state, quiz_builder, last, hist, faulty>>

Next == BeginQuiz \/ EndQuiz \/ AddText \/ Save \/ Teardown

Spec == Init /\ [][Next]_vars

SpecFault == InitFault /\ [][Next]_vars

----------------------------------------------------------------------------
(* Properties *)

\* C1: whatever the tool calls and their outcomes, head is one of root, quiz
\* and option, and one tool call moves head by at most one rank.
C1_HeadOneRankPerCall ==
    /\ head(state) \in {root, quiz, option}
    /\ last.op # "none" =>
          \/ head(state) = head(last.pre)
          \/ head(state) = head(last.pre) + 1
          \/ head(state) + 1 = head(last.pre)

C1_Witness ==
    /\ last.op = "end_quiz"
    /\ last.result = "ok"
    /\ head(state) + 1 = head(last.pre)
    /\ Len(hist) >= 3

\* C2: begin_quiz succeeds exactly when head was root, and leaves head at quiz.
C2_BeginQuizIffRoot ==
    last.op = "begin_quiz" =>
        /\ (last.result = "ok") <=> (last.pre.level = root)
        /\ last.result = "ok" => state.level = quiz

C2_Witness ==
    /\ last.op = "begin_quiz"
    /\ last.result = "ok"
    /\ last.pre.level = root
    /\ state.level = quiz

\* C3: end_quiz succeeds exactly when head was quiz, and leaves head at root.
C3_EndQuizIffQuiz ==
    last.op = "end_quiz" =>
        /\ (last.result = "ok") <=> (last.pre.level = quiz)
        /\ last.result = "ok" => state.level = root

C3_Witness ==
    /\ last.op = "end_quiz"
    /\ last.result = "ok"
    /\ last.pre.level = quiz
    /\ state.level = root

\* C4: add_text succeeds exactly when head was quiz or option, and a
\* successful add_text leaves head as it was.
C4_AddTextIffQuizOrOption ==
    last.op = "add_text" =>
        /\ (last.result = "ok") <=> (last.pre.level \in {quiz, option})
        /\ last.result = "ok" => state.level = last.pre.level

C4_Witness ==
    /\ last.op = "add_text"
    /\ last.result = "ok"
    /\ last.pre.level = quiz
    /\ state.level = quiz
    /\ quiz_builder # last.pre_builder

\* the names of the files that exist
Existing == {f.name : f \in fs}

\* a path that passes the three rules of save, read off the path itself
GoodPath(path) == path.absolute /\ ~path.is_dir /\ path.suffix = ".psarchive"

\* C5: with a valid target path, save succeeds exactly when the tracker is
\* not empty and valid, and fails with IllegalState otherwise.
C5_SaveIffNotEmptyAndValid ==
    (last.op = "save" /\ GoodPath(last.path)) =>
        IF ~last.pre.empty /\ last.pre.level = root
        THEN last.result = "ok"
        ELSE last.result = "IllegalState"

\* C6: save with a relative path, an existing directory or a path without
\* the archive extension fails with InvalidTarget in every tracker state,
\* before any builder call or file write, and leaves the tracker as it was.
C6_BadPathInvalidTarget ==
    (phase = "running" /\ last.op = "save" /\ ~GoodPath(last.path)) =>
        /\ last.result = "InvalidTarget"
        /\ last.builder_calls = 0
        /\ last.writes = 0
        /\ state = last.pre
        /\ quiz_builder = last.pre_builder
        /\ fs = last.pre_fs

C6_Witness ==
    /\ phase = "running"
    /\ last.op = "save"
    /\ last.path.absolute /\ last.path.is_dir /\ last.path.suffix = ".psarchive"
    /\ last.result = "InvalidTarget"
    /\ state.level = quiz
    /\ ~state.empty

\* C7: a tool call rejected with IllegalState leaves head, built and empty
\* as they were and makes no builder call and no file write.
C7_IllegalStateNoChange ==
    (phase = "running" /\ last.result = "IllegalState") =>
        /\ state = last.pre
        /\ last.builder_calls = 0
        /\ last.writes = 0
        /\ quiz_builder = last.pre_builder
        /\ fs = last.pre_fs

C7_Witness ==
    /\ phase = "running"
    /\ last.op = "save"
    /\ last.result = "IllegalState"
    /\ GoodPath(last.path)
    /\ state.level = quiz
    /\ quiz_builder.staging # <<>>

\* C8: a save that the contract lets succeed (valid path, tracker not empty
\* and valid) leaves built true.
C8_SaveMarksBuilt ==
    (phase = "running" /\ last.op = "save" /\ GoodPath(last.path)
        /\ ~last.pre.empty /\ last.pre.level = root) => state.built

\* C9: after begin_quiz, add_text, end_quiz and nothing else, the end of the
\* session makes exactly one build and writes exactly one fallback file,
\* which holds the quiz with its text.
C9_TeardownScenarioA ==
    \A n \in Names, t \in Texts :
        (phase = "closed"
            /\ hist = <<<<"begin_quiz", n>>, <<"add_text", t>>, <<"end_quiz", "">>>>) =>
            /\ td.builds = 1
            /\ td.writes = 1
            /\ Cardinality(Existing) = 1
            /\ \E ts \in Timestamps :
                  /\ Existing = {FallbackName(ts)}
                  /\ fs = {[name |-> FallbackName(ts),
                             gzip |-> <<[bytes |-> <<[name |-> n, texts |-> <<t>>]>>]>>]}

C9_Witness ==
    /\ phase = "closed"
    /\ Len(hist) = 3
    /\ hist[3][1] = "end_quiz"
    /\ hist[2][1] = "add_text"
    /\ td.pre.level = root
    /\ ~td.pre.built
    /\ td.builds = 1

\* C10: when the session ends while head is quiz, the teardown writes no
\* file, makes no build call and prints a diagnostic that names quiz.
C10_TeardownScenarioB ==
    (phase = "closed" /\ state.level = quiz) =>
        /\ td.builds = 0
        /\ td.writes = 0
        /\ Existing = {}
        /\ Len(stderr) = 1
        /\ \E i \in 1..Len(stderr[1]) : stderr[1][i] = "quiz"

C10_Witness ==
    /\ phase = "closed"
    /\ state.level = quiz
    /\ hist # <<>>
    /\ hist[Len(hist)][1] = "add_text"
    /\ Len(stderr) = 1

\* C11: when the session ends with head at root and no quiz ever begun, the
\* teardown writes no file and prints no diagnostic.
C11_TeardownScenarioC ==
    (phase = "closed" /\ td.pre.level = root /\ td.pre.empty) =>
        /\ td.writes = 0
        /\ Existing = {}
        /\ stderr = <<>>

\* the last tool call was a save that the contract lets succeed: a valid
\* path, the tracker not empty and at root
ContractSave ==
    /\ last.op = "save"
    /\ GoodPath(last.path)
    /\ ~last.pre.empty
    /\ last.pre.level = root

\* C12: when the session ends right after a save that the contract lets
\* succeed, the teardown makes no build call and writes no fallback file.
C12_TeardownAfterSave ==
    (phase = "closed" /\ ContractSave) =>
        /\ td.builds = 0
        /\ td.writes = 0
        /\ \A ts \in Timestamps : FallbackName(ts) \notin Existing

\* C13: the teardown never raises, whatever the tracker state and whether or
\* not the automatic build or the fallback write fails.
C13_TeardownNeverRaises ==
    phase = "closed" => td.result = "ok"

\* the texts of the add_text calls that succeeded
AddedTexts == {hist[i][2] : i \in {j \in 1..Len(hist) : hist[j][1] = "add_text"}}

\* the texts held by the archive in a written file
FileTexts(f) ==
    {f.gzip[b].bytes[q].texts[i] :
        <<b, q, i>> \in {x \in (1..Len(f.gzip)) \X (1..MaxItems) \X (1..MaxItems) :
            /\ x[2] <= Len(f.gzip[x[1]].bytes)
            /\ x[3] <= Len(f.gzip[x[1]].bytes[x[2]].texts)}}

\* C15: every text added between a begin_quiz and its end_quiz is part of
\* the archive that a later save, one the contract lets succeed, writes.
C15_RoundTrip ==
    (phase = "running" /\ ContractSave /\ AddedTexts # {}) =>
        \E f \in fs :
            /\ f.name = last.path
            /\ AddedTexts \subseteq FileTexts(f)

\* C16: no tool call ends in IllegalTransition: increase_level is never
\* invoked at the deepest level, decrease_level never at root.
C16_NoIllegalTransition ==
    last.result # "IllegalTransition"

C16_Witness ==
    /\ last.op = "end_quiz"
    /\ last.result = "ok"
    /\ Len(quiz_builder.quizzes) = 2
    /\ state.level = root

\* the begin_quiz calls that succeeded
Begun == {i \in 1..Len(hist) : hist[i][1] = "begin_quiz"}

\* C17: empty is true until the first successful begin_quiz and false in
\* every state after it.
C17_EmptyUntilFirstBegin ==
    state.empty <=> (Begun = {})

C17_Witness ==
    /\ ~state.empty
    /\ state.level = root
    /\ last.op = "save"
    /\ Cardinality(Begun) = 1

\* C18: head never reaches option, and add_text is never called at option.
C18_OptionUnreachable ==
    /\ state.level \in {root, quiz}
    /\ last.pre.level \in {root, quiz}

C18_Witness ==
    /\ last.op = "add_text"
    /\ last.result = "ok"
    /\ last.pre.level = quiz
    /\ Len(hist) >= 2

\* C19: after every tool call, failed ones and ones whose builder call
\* raised included, the builder has an open quiz exactly when head is quiz:
\* the quizzes the builder has open are as many as the rank of head.
C19_BuilderFollowsHead ==
    Len(quiz_builder.staging) = state.level

C19_Witness ==
    /\ last.op = "end_quiz"
    /\ last.result = "BuilderError"
    /\ state.level = quiz
    /\ Len(quiz_builder.staging) = 1

\* C20: a save that the contract lets succeed leaves head and empty as they
\* were and succeeds, and so does the same save issued again right after it,
\* which writes the same builder content.
C20_SaveRepeatable ==
    (phase = "running" /\ ContractSave) =>
        /\ state.level = last.pre.level
        /\ state.empty = last.pre.empty
        /\ last.result = "ok"
        /\ LET again == save(state, quiz_builder, fs, last.path, "none")
           IN  /\ again.result = "ok"
               /\ [name |-> last.path,
                    gzip |-> <<ToBytes(last.pre_builder.quizzes)>>] \in again.fs

====
